---- MODULE Spec2Model ----
(***************************************************************************)
(* Model of the sales agent engine (src/agent_engine.py): the row          *)
(* evaluator (evaluate_rules), the daily processor (load_data,             *)
(* get_latest_data, process_daily_data), the aggregator                    *)
(* (aggregate_findings, _empty_summary) and run_analysis.                  *)
(*                                                                         *)
(* Conventions.                                                            *)
(*  - A row (pandas Series) is a function from the column names present    *)
(*    to cell values, so row.get(k, d) is RowGet(row, k, d).               *)
(*  - Numbers are integers.  The float comparisons a / b < 0.70 and        *)
(*    a / b < 0.85 (b > 0) are decided exactly as 100 * a < 70 * b and     *)
(*    100 * a < 85 * b; for the magnitudes used here IEEE division agrees  *)
(*    with the exact quotient on both sides of each threshold.             *)
(*  - A float that is a quotient is kept as the pair <<num, den>>.         *)
(*  - An f-string message "text {v:.1f}..." is [text, tenths] with tenths  *)
(*    the value rounded to one decimal, in tenths.                         *)
(*  - Python None is the record None, except for adjustment_note (a        *)
(*    string slot) where it is the string NoneNote.                        *)
(***************************************************************************)
EXTENDS Integers, Sequences, FiniteSets, TLC

VARIABLES
    file,         \* content of the data file at data_path
    df,           \* engine.df: None or the loaded table
    latest_date,  \* engine.latest_date
    df_results,   \* table returned by the last process_daily_data
    summary,      \* value returned by the last run_analysis
    outcome,      \* how the last run_analysis ended: "none", "returned", "raised"
    row,          \* argument of a direct evaluate_rules call
    rollup,       \* local final_status of that call before the R4 adjustment
    evaluation,   \* value returned by that call
    now,          \* the wall clock (datetime.now()), as a day
    seen,         \* the content the data file had when run_analysis was last called
    backup,       \* content of the backup file written by import_data
    req           \* the request handlers running concurrently: position and result

vars == <<file, df, latest_date, df_results, summary, outcome, row, rollup, evaluation,
          now, seen, backup, req>>

None == [kind |-> "None"]
NaT == [kind |-> "NaT"]
Timestamp(d) == [kind |-> "Timestamp", day |-> d]
NoneNote == "None"

Statuses == {"OK", "WARNING", "CRITICAL"}

(***************************************************************************)
(* Helpers over sequences and numbers.                                     *)
(***************************************************************************)
Abs(x) == IF x < 0 THEN -x ELSE x

(***************************************************************************)
(* The percentage (1 - total_sales / avg_7d) * 100 is a double, and '.1f'  *)
(* prints the tenth nearest to that double.  Where the exact percentage    *)
(* lies halfway between two tenths, the rounding of the division, of the   *)
(* subtraction and of the product decides.  Doubles are computed here on   *)
(* numerals: a sequence of limbs of LimbBits bits, lowest first, counting  *)
(* units of 2^-(LimbBits * FractionLimbs).                                 *)
(***************************************************************************)
\* the bits of a double's significand
SignificandBits == 53

LimbBits == 15

Base == 2 ^ LimbBits

\* enough places for the significand of the smallest quotient, 1/2000
FractionLimbs == 5

Limb(a, i) == IF i >= 1 /\ i <= Len(a) THEN a[i] ELSE 0

\* the numeral of n >= 0
Limbs(n) == <<n % Base, (n \div Base) % Base, n \div (Base * Base)>>

\* the carry into limb i of a + b
CarryIn(a, b, i) ==
    \E j \in 1..(i - 1) :
        /\ Limb(a, j) + Limb(b, j) >= Base
        /\ \A l \in (j + 1)..(i - 1) : Limb(a, l) + Limb(b, l) = Base - 1

AddLimbs(a, b) ==
    [i \in 1..(Len(a) + Len(b)) |->
       (Limb(a, i) + Limb(b, i) + (IF CarryIn(a, b, i) THEN 1 ELSE 0)) % Base]

\* the borrow from limb i of a - b
BorrowIn(a, b, i) ==
    \E j \in 1..(i - 1) :
        /\ Limb(a, j) < Limb(b, j)
        /\ \A l \in (j + 1)..(i - 1) : Limb(a, l) = Limb(b, l)

\* a - b for a >= b
SubLimbs(a, b) ==
    [i \in 1..Len(a) |->
       (Limb(a, i) - Limb(b, i) - (IF BorrowIn(a, b, i) THEN 1 ELSE 0)) % Base]

\* a * Base^n
ShiftLimbs(a, n) == [i \in 1..n |-> 0] \o a

\* a * c for a small c
TimesLimbs(a, c) ==
    AddLimbs([i \in 1..Len(a) |-> (a[i] * c) % Base],
             [i \in 1..(Len(a) + 1) |-> (Limb(a, i - 1) * c) \div Base])

\* bit i of a, the lowest being bit 1
BitOf(a, i) ==
    (Limb(a, ((i - 1) \div LimbBits) + 1) \div (2 ^ ((i - 1) % LimbBits))) % 2

\* the place of the highest set bit, 0 for zero
TopBit(a) ==
    CHOOSE h \in 0..(LimbBits * Len(a)) :
        /\ h = 0 \/ BitOf(a, h) = 1
        /\ \A i \in (h + 1)..(LimbBits * Len(a)) : BitOf(a, i) = 0

\* a < b
LessLimbs(a, b) ==
    \E h \in 1..(Len(a) + Len(b)) :
        /\ Limb(a, h) < Limb(b, h)
        /\ \A i \in (h + 1)..(Len(a) + Len(b)) : Limb(a, i) = Limb(b, i)

\* a without its d lowest bits
Kept(a, d) ==
    [i \in 1..Len(a) |->
       IF i <= d \div LimbBits THEN 0
       ELSE IF i = (d \div LimbBits) + 1 THEN a[i] - (a[i] % (2 ^ (d % LimbBits)))
       ELSE a[i]]

\* a rounded at bit d + 1, ties to even; inexact says that a itself stands
\* for a slightly greater number
RoundAt(a, inexact, d) ==
    IF d <= 0 THEN a
    ELSE IF /\ BitOf(a, d) = 1
            /\ \/ inexact
               \/ \E i \in 1..(d + 1) : i # d /\ BitOf(a, i) = 1
      THEN AddLimbs(Kept(a, d), ShiftLimbs(<<2 ^ (d % LimbBits)>>, d \div LimbBits))
    ELSE Kept(a, d)

\* the double nearest to a
RoundToDouble(a, inexact) == RoundAt(a, inexact, TopBit(a) - SignificandBits)

\* the first n limbs of rem / 2000 after the point, highest first
RECURSIVE FracPlaces(_, _)
FracPlaces(rem, n) ==
    IF n = 0 THEN <<>>
    ELSE <<(rem * Base) \div 2000>> \o FracPlaces((rem * Base) % 2000, n - 1)

\* what is left of rem / 2000 after n limbs
RECURSIVE FracRem(_, _)
FracRem(rem, n) == IF n = 0 THEN rem ELSE FracRem((rem * Base) % 2000, n - 1)

\* the double total_sales / avg_7d for the quotient abs / 2000
Quotient(abs) ==
    RoundToDouble([i \in 1..FractionLimbs |->
                      FracPlaces(abs % 2000, FractionLimbs)[FractionLimbs + 1 - i]]
                    \o Limbs(abs \div 2000),
                  FracRem(abs % 2000, FractionLimbs) # 0)

\* the double 1 - trend_ratio, where total_sales / avg_7d is m / 2000
OneMinus(m, trend_ratio) ==
    RoundToDouble(IF m > 0 THEN SubLimbs(ShiftLimbs(<<1>>, FractionLimbs), trend_ratio)
                  ELSE AddLimbs(ShiftLimbs(<<1>>, FractionLimbs), trend_ratio), FALSE)

\* the double (1 - trend_ratio) * 100
Percent(m) == RoundToDouble(TimesLimbs(OneMinus(m, Quotient(Abs(m))), 100), FALSE)

\* TRUE when the double with twenty times percent20 lies above k/10 + 0.05,
\* or on it with k odd: '.1f' prints (k + 1)/10
AboveMidpoint(k, midpoint20, percent20) ==
    \/ LessLimbs(midpoint20, percent20)
    \/ ~LessLimbs(percent20, midpoint20) /\ k % 2 = 1

\* The exact percentage is k/10 + 0.05, so total_sales / avg_7d is m / 2000
\* for m = 1999 - 2k.
TieRoundsUp(k) ==
    AboveMidpoint(k, ShiftLimbs(Limbs(2 * k + 1), FractionLimbs),
                  TimesLimbs(Percent(1999 - 2 * k), 20))

\* '.1f' of the percentage num / den, in tenths
Tenths(num, den) ==
    LET k == (10 * num) \div den
        twice == 2 * (10 * num - k * den)
    IN  IF twice > den \/ (twice = den /\ TieRoundsUp(k)) THEN k + 1 ELSE k

\* pandas Series.get / dict.get
RowGet(r, k, d) == IF k \in DOMAIN r THEN r[k] ELSE d

(***************************************************************************)
(* evaluate_rules                                                          *)
(***************************************************************************)
Violation(rule, severity, text, tenths) ==
    [rule |-> rule, severity |-> severity, message |-> [text |-> text, tenths |-> tenths]]

\* R1: target achievement
R1Mutant(r) ==
    LET delta_target == RowGet(r, "delta_vs_target", 0) IN
    IF delta_target <= -10
      THEN <<Violation("R1.3", "CRITICAL", "Missed target by", 10 * Abs(delta_target))>>
    ELSE IF delta_target < 0
      THEN <<Violation("R1.2", "WARNING", "Below target by", 10 * Abs(delta_target))>>
    ELSE <<>>

R1(r) ==
    LET delta_target == RowGet(r, "delta_vs_target", 0) IN
    IF delta_target < -10
      THEN <<Violation("R1.3", "CRITICAL", "Missed target by", 10 * Abs(delta_target))>>
    ELSE IF delta_target < 0
      THEN <<Violation("R1.2", "WARNING", "Below target by", 10 * Abs(delta_target))>>
    ELSE <<>>

\* R2: day-over-day performance
R2Mutant(r) ==
    LET delta_yesterday == RowGet(r, "delta_vs_yesterday", 0) IN
    IF delta_yesterday < -15
      THEN <<Violation("R2.3", "CRITICAL", "Dropped", 10 * Abs(delta_yesterday))>>
    ELSE IF delta_yesterday <= -5
      THEN <<Violation("R2.2", "WARNING", "Down", 10 * Abs(delta_yesterday))>>
    ELSE <<>>

R2(r) ==
    LET delta_yesterday == RowGet(r, "delta_vs_yesterday", 0) IN
    IF delta_yesterday < -15
      THEN <<Violation("R2.3", "CRITICAL", "Dropped", 10 * Abs(delta_yesterday))>>
    ELSE IF delta_yesterday < -5
      THEN <<Violation("R2.2", "WARNING", "Down", 10 * Abs(delta_yesterday))>>
    ELSE <<>>

\* R3: trend anomaly against the 7-day average; below is the percentage
\* the message prints
TrendAnomalyMutant(total_sales, avg_7d, below) ==
    IF avg_7d > 0
      THEN IF 100 * total_sales < 70 * avg_7d
             THEN <<Violation("R3.3", "CRITICAL", "Sales below 7-day average", below)>>
           ELSE IF 100 * total_sales <= 85 * avg_7d
             THEN <<Violation("R3.2", "WARNING", "Sales below 7-day average", below)>>
           ELSE <<>>
      ELSE <<>>

TrendAnomaly(total_sales, avg_7d, below) ==
    IF avg_7d > 0
      THEN IF 100 * total_sales < 70 * avg_7d
             THEN <<Violation("R3.3", "CRITICAL", "Sales below 7-day average", below)>>
           ELSE IF 100 * total_sales < 85 * avg_7d
             THEN <<Violation("R3.2", "WARNING", "Sales below 7-day average", below)>>
           ELSE <<>>
      ELSE <<>>

R3(r) ==
    LET total_sales == RowGet(r, "total_sales", 0)
        avg_7d == RowGet(r, "avg_7d_sales", total_sales)
    IN  TrendAnomaly(total_sales, avg_7d, Tenths(100 * (avg_7d - total_sales), avg_7d))

\* "Determine final status": the rollup over the violations list
RollupStatusMutant(violations) ==
    IF \E i \in 1..Len(violations) : violations[i].severity = "WARNING" THEN "WARNING"
    ELSE IF \E i \in 1..Len(violations) : violations[i].severity = "CRITICAL" THEN "CRITICAL"
    ELSE "OK"

RollupStatus(violations) ==
    IF \E i \in 1..Len(violations) : violations[i].severity = "CRITICAL" THEN "CRITICAL"
    ELSE IF \E i \in 1..Len(violations) : violations[i].severity = "WARNING" THEN "WARNING"
    ELSE "OK"

\* R4: weekend adjustment, applied to the rolled-up status
R4Mutant(r, final_status, violations) ==
    IF RowGet(r, "is_weekend", FALSE) /\ final_status = "CRITICAL"
      THEN [status |-> "WARNING",
            violations |-> SelectSeq(violations, LAMBDA v : v.severity # "CRITICAL"),
            adjustment_note |-> "Downgraded from CRITICAL due to weekend"]
      ELSE [status |-> final_status,
            violations |-> violations,
            adjustment_note |-> NoneNote]

R4(r, final_status, violations) ==
    IF RowGet(r, "is_weekend", FALSE) /\ final_status = "CRITICAL"
      THEN [status |-> "WARNING",
            violations |-> violations,
            adjustment_note |-> "Downgraded from CRITICAL due to weekend"]
      ELSE [status |-> final_status,
            violations |-> violations,
            adjustment_note |-> NoneNote]

RuleViolationsMutant(r) == R2(r) \o R1(r) \o R3(r)

RuleViolations(r) == R1(r) \o R2(r) \o R3(r)

\* lines 100-118 on the violations list
FinalStatus(r, violations) == R4(r, RollupStatus(violations), violations)

evaluate_rules(r) == FinalStatus(r, RuleViolations(r))


(***************************************************************************)
(* Dates.  The CSV holds date strings; pd.to_datetime turns them into      *)
(* timestamps (here: day numbers of January 2024) and strftime('%Y-%m-%d') *)
(* turns a timestamp back into text.  read_csv reads its missing-value     *)
(* texts as NaN, which to_datetime turns into NaT; any other string        *)
(* outside the table does not parse (to_datetime raises).                  *)
(***************************************************************************)
DateStrings == {"2024-01-05", "2024-01-06", "2024-01-07"}

\* some of the texts pd.read_csv reads as a missing value by default
NAStrings == {"", "NA", "N/A", "n/a", "NaN", "null"}

\* NaT as a cell of a converted date column: equal to no day
NaTDay == 0

to_datetime(s) ==
    CASE s = "2024-01-05" -> 5
      [] s = "2024-01-06" -> 6
      [] s = "2024-01-07" -> 7
      [] s \in NAStrings -> NaTDay

strftime(d) ==
    CASE d = 5 -> "2024-01-05"
      [] d = 6 -> "2024-01-06"
      [] d = 7 -> "2024-01-07"
      [] d = 8 -> "2024-01-08"
      [] d = 9 -> "2024-01-09"
      [] d = 10 -> "2024-01-10"
      [] d = 11 -> "2024-01-11"

\* strftime('%A')
DayName(d) ==
    CASE d = 5 -> "Friday"
      [] d = 6 -> "Saturday"
      [] d = 7 -> "Sunday"
      [] d = 8 -> "Monday"
      [] d = 9 -> "Tuesday"
      [] d = 10 -> "Wednesday"
      [] d = 11 -> "Thursday"

\* the day the wall clock shows when the engine is started
Today == to_datetime("2024-01-07") + 1

(***************************************************************************)
(* load_data / get_latest_data                                             *)
(***************************************************************************)
Min(a, b) == IF a < b THEN a ELSE b

MaxOf(S) == CHOOSE m \in S : \A n \in S : n <= m

\* the first n elements (DataFrame.head, list[:n])
Head_n(s, n) == SubSeq(s, 1, Min(n, Len(s)))

\* the table as read by pd.read_csv (line 23): the date cells are still text
RawTable(f) == [kind |-> "table", cols |-> f.cols, rows |-> f.rows, parsed |-> FALSE]

\* line 24: the date column converted cell by cell
ParsedTable(f) ==
    [kind |-> "table", cols |-> f.cols,
     rows |-> [i \in 1..Len(f.rows) |-> [f.rows[i] EXCEPT !["date"] = to_datetime(@)]],
     parsed |-> TRUE]

DatesParse(f) ==
    \A i \in 1..Len(f.rows) : f.rows[i].date \in DateStrings \cup NAStrings

\* the days of a converted date column, NaT cells left out
DaysOf(t) == {t.rows[i].date : i \in 1..Len(t.rows)} \ {NaTDay}

\* line 25: the maximum of the date column (max skips NaT), NaT for a
\* column without a day
LatestDateMutant(t) ==
    IF DaysOf(t) = {} THEN NaT ELSE Timestamp(t.rows[Len(t.rows)].date)

LatestDate(t) ==
    IF DaysOf(t) = {} THEN NaT ELSE Timestamp(MaxOf(DaysOf(t)))

\* load_data as a function of the file: the engine fields after the call
\* and whether an exception left the call
load_data(f, old_df, old_latest) ==
    IF f.kind = "absent"
      THEN [df |-> old_df, latest_date |-> old_latest, raised |-> FALSE]
    ELSE IF f.kind = "zero_byte"
      THEN [df |-> old_df, latest_date |-> old_latest, raised |-> TRUE]
    ELSE IF "date" \notin f.cols \/ ~DatesParse(f)
      THEN [df |-> RawTable(f), latest_date |-> old_latest, raised |-> TRUE]
    ELSE [df |-> ParsedTable(f), latest_date |-> LatestDate(ParsedTable(f)), raised |-> FALSE]

\* lines 36-38 on the engine fields e: the latest rows, or that the
\* selection raised
get_latest_rows(e) ==
    IF e.df # None /\ Len(e.df.rows) > 0
      THEN IF "date" \notin e.df.cols
             THEN [rows |-> <<>>, raised |-> TRUE]
           ELSE IF ~e.df.parsed \/ e.latest_date.kind # "Timestamp"
             THEN [rows |-> <<>>, raised |-> FALSE]
           ELSE [rows |-> SelectSeq(e.df.rows, LAMBDA r : r.date = e.latest_date.day),
                 raised |-> FALSE]
      ELSE [rows |-> <<>>, raised |-> FALSE]

\* get_latest_data: load on first use, then select
get_latest_data(f, old_df, old_latest) ==
    LET e == IF old_df = None
               THEN load_data(f, old_df, old_latest)
               ELSE [df |-> old_df, latest_date |-> old_latest, raised |-> FALSE]
        sel == get_latest_rows(e)
    IN  IF e.raised
          THEN [df |-> e.df, latest_date |-> e.latest_date, rows |-> <<>>, raised |-> TRUE]
          ELSE [df |-> e.df, latest_date |-> e.latest_date, rows |-> sel.rows,
                raised |-> sel.raised]

(***************************************************************************)
(* process_daily_data                                                      *)
(***************************************************************************)
ResultOfMutant(r) ==
    evaluate_rules(r) @@
    [date |-> RowGet(r, "date", None),
     region |-> RowGet(r, "city", RowGet(r, "region", "Unknown")),
     product |-> RowGet(r, "product", RowGet(r, "product_line", "Unknown")),
     total_sales |-> RowGet(r, "total_sales", RowGet(r, "sales", 0)),
     target_daily |-> RowGet(r, "target_daily", 0),
     delta_vs_target |-> RowGet(r, "delta_vs_target", 0),
     delta_vs_yesterday |-> RowGet(r, "delta_vs_yesterday", 0),
     day_name |-> RowGet(r, "day_name", ""),
     is_weekend |-> RowGet(r, "is_weekend", FALSE)]


ResultOf(r) ==
    evaluate_rules(r) @@
    [date |-> RowGet(r, "date", None),
     region |-> RowGet(r, "region", RowGet(r, "city", "Unknown")),
     product |-> RowGet(r, "product", RowGet(r, "product_line", "Unknown")),
     total_sales |-> RowGet(r, "total_sales", RowGet(r, "sales", 0)),
     target_daily |-> RowGet(r, "target_daily", 0),
     delta_vs_target |-> RowGet(r, "delta_vs_target", 0),
     delta_vs_yesterday |-> RowGet(r, "delta_vs_yesterday", 0),
     day_name |-> RowGet(r, "day_name", ""),
     is_weekend |-> RowGet(r, "is_weekend", FALSE)]


\* the result table for the latest rows; the empty table for no rows
process_rows(rows) == [i \in 1..Len(rows) |-> ResultOf(rows[i])]

(***************************************************************************)
(* aggregate_findings                                                      *)
(***************************************************************************)
RECURSIVE SumOf(_, _)
SumOf(s, k) == IF s = <<>> THEN 0 ELSE s[1][k] + SumOf(Tail(s), k)

WithStatus(res, st) == SelectSeq(res, LAMBDA r : r.status = st)

\* x placed behind every element whose key is <= its own (stable)
RECURSIVE InsertByKey(_, _, _)
InsertByKey(x, s, sign) ==
    IF s = <<>> THEN <<x>>
    ELSE IF sign * s[1].delta_vs_target <= sign * x.delta_vs_target
      THEN <<s[1]>> \o InsertByKey(x, Tail(s), sign)
    ELSE <<x>> \o s

\* sort_values('delta_vs_target', ascending=...) on the few rows handled
\* here: ties keep their table order in both directions
RECURSIVE SortPrefix(_, _, _)
SortPrefix(s, n, sign) ==
    IF n = 0 THEN <<>> ELSE InsertByKey(s[n], SortPrefix(s, n - 1, sign), sign)

sort_valuesMutant(s, ascending) == SortPrefix(s, Len(s), 1)

sort_values(s, ascending) == SortPrefix(s, Len(s), IF ascending THEN 1 ELSE -1)

\* lines 170-174; a quotient is the pair <<numerator, denominator>>
PortfolioAchievementMutant(total_sales, total_target) ==
    IF total_target # 0 THEN <<100 * total_sales, total_target>> ELSE <<0, 1>>

PortfolioAchievement(total_sales, total_target) ==
    IF total_target > 0 THEN <<100 * total_sales, total_target>> ELSE <<0, 1>>

\* lines 182-188
OverallStatusMutant(critical_count, warning_count) ==
    IF warning_count > 0 THEN "WARNING"
    ELSE IF critical_count > 0 THEN "CRITICAL"
    ELSE "OK"

OverallStatus(critical_count, warning_count) ==
    IF critical_count > 0 THEN "CRITICAL"
    ELSE IF warning_count > 0 THEN "WARNING"
    ELSE "OK"

\* lines 219-220 read the clock twice: clock at the first datetime.now(),
\* later at the second
empty_summary(clock, later) ==
    [date |-> strftime(clock),
     day_name |-> DayName(later),
     is_weekend |-> FALSE,
     total_rows |-> 0,
     critical_count |-> 0,
     warning_count |-> 0,
     ok_count |-> 0,
     total_sales |-> 0,
     total_target |-> 0,
     portfolio_achievement |-> <<0, 1>>,
     delta_vs_yesterday |-> <<0, 1>>,
     overall_status |-> "OK",
     critical_issues |-> <<>>,
     warning_issues |-> <<>>,
     top_performers |-> <<>>,
     flagged_items |-> <<>>]

aggregate_findings(res, clock, later) ==
    IF res = <<>> THEN empty_summary(clock, later)
    ELSE
      LET critical_count == Len(WithStatus(res, "CRITICAL"))
          warning_count == Len(WithStatus(res, "WARNING"))
          total_sales == SumOf(res, "total_sales")
          total_target == SumOf(res, "target_daily")
      IN [date |-> strftime(res[1].date),
          day_name |-> res[1].day_name,
          is_weekend |-> res[1].is_weekend,
          total_rows |-> Len(res),
          critical_count |-> critical_count,
          warning_count |-> warning_count,
          ok_count |-> Len(WithStatus(res, "OK")),
          total_sales |-> total_sales,
          total_target |-> total_target,
          portfolio_achievement |-> PortfolioAchievement(total_sales, total_target),
          delta_vs_yesterday |-> <<SumOf(res, "delta_vs_yesterday"), Len(res)>>,
          overall_status |-> OverallStatus(critical_count, warning_count),
          critical_issues |-> Head_n(sort_values(WithStatus(res, "CRITICAL"), TRUE), 5),
          warning_issues |-> Head_n(sort_values(WithStatus(res, "WARNING"), TRUE), 5),
          top_performers |-> Head_n(sort_values(WithStatus(res, "OK"), FALSE), 3),
          flagged_items |-> SelectSeq(res, LAMBDA r : r.status \in {"CRITICAL", "WARNING"})]

(***************************************************************************)
(* generate_ai_insight: the template branch and the listed issues          *)
(***************************************************************************)
\* lines 251-260: day_translation.get(day_name, day_name)
day_translation(day_name) ==
    CASE day_name = "Monday" -> "Senin"
      [] day_name = "Tuesday" -> "Selasa"
      [] day_name = "Wednesday" -> "Rabu"
      [] day_name = "Thursday" -> "Kamis"
      [] day_name = "Friday" -> "Jumat"
      [] day_name = "Saturday" -> "Sabtu"
      [] day_name = "Sunday" -> "Minggu"
      [] OTHER -> day_name

\* the values interpolated into one bullet of the alerts section
CriticalLine(issue) ==
    [label |-> "KRITIS", region |-> issue.region, product |-> issue.product,
     total_sales |-> issue.total_sales, delta_vs_target |-> issue.delta_vs_target,
     delta_vs_yesterday |-> issue.delta_vs_yesterday]

WarningLine(issue) ==
    [label |-> "PERINGATAN", region |-> issue.region, product |-> issue.product,
     delta_vs_target |-> issue.delta_vs_target]

\* lines 305-327: the bullets of the alerts section, in text order
AlertLinesMutant(sm) ==
    LET crit == Head_n(sm.critical_issues, 5)
        warn == Head_n(sm.warning_issues, 2)
    IN  [i \in 1..Len(crit) |-> CriticalLine(crit[i])]
          \o [i \in 1..Len(warn) |-> WarningLine(warn[i])]

AlertLines(sm) ==
    LET crit == Head_n(sm.critical_issues, 3)
        warn == Head_n(sm.warning_issues, 2)
    IN  [i \in 1..Len(crit) |-> CriticalLine(crit[i])]
          \o [i \in 1..Len(warn) |-> WarningLine(warn[i])]

\* the report as the template branch taken and the values filled in
generate_ai_insight(sm) ==
    [header |-> [day |-> day_translation(sm.day_name), date |-> sm.date],
     branch |-> IF sm.overall_status = "CRITICAL" THEN "CRITICAL"
                ELSE IF sm.overall_status = "WARNING" THEN "WARNING"
                ELSE "OK",
     metrics |-> [achievement |-> sm.portfolio_achievement,
                  total_sales |-> sm.total_sales,
                  total_target |-> sm.total_target,
                  delta_vs_yesterday |-> sm.delta_vs_yesterday,
                  critical_count |-> sm.critical_count,
                  warning_count |-> sm.warning_count],
     alert_lines |-> AlertLines(sm),
     no_issues_line |-> sm.critical_issues = <<>> /\ sm.warning_issues = <<>>]

(***************************************************************************)
(* run_analysis on engine fields (old_df, old_latest) with the file f      *)
(***************************************************************************)
\* lines 380-383: the summary with the insight stored in it
WithInsight(sm) ==
    [field \in DOMAIN sm \cup {"ai_insight"} |->
        IF field = "ai_insight" THEN generate_ai_insight(sm) ELSE sm[field]]

\* lines 376-385 on the selection g and its result table
Analysed(g, results, clock, later) ==
    [df |-> g.df, latest_date |-> g.latest_date, raised |-> FALSE,
     df_results |-> results,
     summary |-> WithInsight(aggregate_findings(results, clock, later))]

run_analysis(f, old_df, old_latest, clock, later) ==
    LET g == get_latest_data(f, old_df, old_latest)
    IN  IF g.raised
          THEN [df |-> g.df, latest_date |-> g.latest_date, raised |-> TRUE,
                df_results |-> None, summary |-> None]
          ELSE Analysed(g, process_rows(g.rows), clock, later)

(***************************************************************************)
(* The data file.  It is absent, present with zero bytes (pandas.read_csv  *)
(* raises EmptyDataError), or a CSV table: a header (cols) and records.    *)
(***************************************************************************)
Absent == [kind |-> "absent"]
ZeroByte == [kind |-> "zero_byte"]
Table(cols, rows) == [kind |-> "table", cols |-> cols, rows |-> rows]

\* the two handlers that may run at the same time, before either is called
Requests == {"A", "B"}

\* a request: where its handler stands, what its run_analysis call returned,
\* the maximum it read at line 25, the engine it runs on once the global
\* agent has been rebound (None: the global agent), and for an import the
\* posted file and the data file the handler found
NoRequests ==
    [t \in Requests |-> [pc |-> "idle", result |-> None, max |-> None, self |-> None,
                         kind |-> "get", upload |-> None, previous |-> None,
                         read |-> None]]

Init ==
    /\ file \in {Absent, ZeroByte}
    /\ df = None
    /\ latest_date = None
    /\ df_results = None
    /\ summary = None
    /\ outcome = "none"
    /\ row = None
    /\ rollup = "none"
    /\ evaluation = None
    /\ now = Today
    /\ seen = None
    /\ backup = Absent
    /\ req = NoRequests

(***************************************************************************)
(* Row evaluator on its own: evaluate_rules applied to one row.  The rows  *)
(* take every combination of the threshold values of R1, R2 and R3, of     *)
(* is_weekend, and of which of these columns are present.                  *)
(***************************************************************************)
RuleCols == {"delta_vs_target", "delta_vs_yesterday", "total_sales", "avg_7d_sales", "is_weekend"}

RuleFullRows ==
    [delta_vs_target : {-11, -10, -1, 0, 5},
     delta_vs_yesterday : {-16, -15, -6, -5, 0},
     total_sales : {0, 69, 70, 84, 85, 100},
     avg_7d_sales : {-100, 0, 100},
     is_weekend : BOOLEAN]

Restrict(f, cols) == [c \in cols |-> f[c]]

RuleRows == {Restrict(f, cols) : f \in RuleFullRows, cols \in SUBSET RuleCols}

InitRules ==
    /\ file = Absent
    /\ df = None
    /\ latest_date = None
    /\ df_results = None
    /\ summary = None
    /\ outcome = "none"
    /\ row \in RuleRows
    /\ rollup = "none"
    /\ evaluation = None
    /\ now = Today
    /\ seen = None
    /\ backup = Absent
    /\ req = NoRequests

\* one call evaluate_rules(row)
EvaluateRow ==
    /\ row # None
    /\ evaluation = None
    /\ rollup' = RollupStatus(RuleViolations(row))
    /\ evaluation' = evaluate_rules(row)
    /\ UNCHANGED <<file, df, latest_date, df_results, summary, outcome, row, now, seen, backup, req>>

NextRules == EvaluateRow

SpecRules == InitRules /\ [][NextRules]_vars

(***************************************************************************)
(* Claims about the row evaluator (checked under SpecRules).               *)
(***************************************************************************)
Evaluated == evaluation # None

SeverityRank(s) == IF s = "CRITICAL" THEN 2 ELSE IF s = "WARNING" THEN 1 ELSE 0

MaxSeverity(violations) ==
    LET ranks == {0} \cup {SeverityRank(violations[i].severity) : i \in 1..Len(violations)}
        top == CHOOSE m \in ranks : \A n \in ranks : n <= m
    IN  CHOOSE s \in Statuses : SeverityRank(s) = top

EntriesOf(violations, rules) == SelectSeq(violations, LAMBDA v : v.rule \in rules)

Has(r, k) == k \in DOMAIN r

\* C1: every evaluation has a status in {OK, WARNING, CRITICAL}, and the
\* status rolled up before the R4 adjustment is the maximum severity among
\* the violations of R1-R3 (OK exactly when there is no violation).
C1_StatusIsMaxSeverity ==
    Evaluated =>
        /\ evaluation.status \in Statuses
        /\ rollup = MaxSeverity(evaluation.violations)
        /\ (rollup = "OK") <=> (evaluation.violations = <<>>)

\* a row with both a WARNING and a CRITICAL violation has been evaluated
C1_Witness ==
    /\ Evaluated
    /\ rollup = "CRITICAL"
    /\ \E i \in 1..Len(evaluation.violations) : evaluation.violations[i].severity = "WARNING"
    /\ \E i \in 1..Len(evaluation.violations) : evaluation.violations[i].severity = "CRITICAL"

\* C2: a weekend row whose rolled-up status is CRITICAL is returned with
\* status WARNING, an adjustment note, and the violations of R1-R3
\* unchanged, CRITICAL entries included.
C2_WeekendDowngrade ==
    (Evaluated /\ Has(row, "is_weekend") /\ row.is_weekend /\ rollup = "CRITICAL") =>
        /\ evaluation.status = "WARNING"
        /\ evaluation.adjustment_note # NoneNote
        /\ evaluation.adjustment_note # ""
        /\ evaluation.violations = R1(row) \o R2(row) \o R3(row)
        /\ \E i \in 1..Len(evaluation.violations) : evaluation.violations[i].severity = "CRITICAL"

\* a weekend row with a CRITICAL R1 violation has been downgraded
C2_Witness ==
    /\ Evaluated /\ Has(row, "is_weekend") /\ row.is_weekend /\ rollup = "CRITICAL"
    /\ evaluation.status = "WARNING"
    /\ \E i \in 1..Len(evaluation.violations) : evaluation.violations[i].rule = "R1.3"

\* C3: R1 yields exactly one R1.3 CRITICAL violation when delta_vs_target
\* < -10, exactly one R1.2 WARNING violation when -10 <= delta_vs_target < 0
\* (so -10 itself is WARNING), and no R1 violation when delta_vs_target >= 0.
C3_R1Thresholds ==
    (Evaluated /\ Has(row, "delta_vs_target")) =>
        LET d == row.delta_vs_target
            r1 == EntriesOf(evaluation.violations, {"R1.2", "R1.3"})
        IN  /\ d < -10 =>
                Len(r1) = 1 /\ r1[1].rule = "R1.3" /\ r1[1].severity = "CRITICAL"
            /\ (-10 <= d /\ d < 0) =>
                Len(r1) = 1 /\ r1[1].rule = "R1.2" /\ r1[1].severity = "WARNING"
            /\ d >= 0 => r1 = <<>>

\* delta_vs_target = -10 exactly has been evaluated to an R1.2 WARNING
C3_Witness ==
    /\ Evaluated /\ Has(row, "delta_vs_target") /\ row.delta_vs_target = -10
    /\ \E i \in 1..Len(evaluation.violations) :
          evaluation.violations[i].rule = "R1.2" /\ evaluation.violations[i].severity = "WARNING"

\* C4: R2 yields exactly one R2.3 CRITICAL violation when delta_vs_yesterday
\* < -15, exactly one R2.2 WARNING violation when -15 <= delta_vs_yesterday
\* < -5 (so -15 is WARNING and -5 yields nothing), and none when >= -5.
C4_R2Thresholds ==
    (Evaluated /\ Has(row, "delta_vs_yesterday")) =>
        LET y == row.delta_vs_yesterday
            r2 == EntriesOf(evaluation.violations, {"R2.2", "R2.3"})
        IN  /\ y < -15 =>
                Len(r2) = 1 /\ r2[1].rule = "R2.3" /\ r2[1].severity = "CRITICAL"
            /\ (-15 <= y /\ y < -5) =>
                Len(r2) = 1 /\ r2[1].rule = "R2.2" /\ r2[1].severity = "WARNING"
            /\ y >= -5 => r2 = <<>>

\* delta_vs_yesterday = -5 exactly has been evaluated without an R2 violation
C4_Witness ==
    /\ Evaluated /\ Has(row, "delta_vs_yesterday") /\ row.delta_vs_yesterday = -5
    /\ EntriesOf(evaluation.violations, {"R2.2", "R2.3"}) = <<>>

\* C5: R3 is evaluated only when avg_7d_sales > 0; with ratio = total_sales
\* / avg_7d_sales, ratio < 0.70 yields R3.3 CRITICAL, 0.70 <= ratio < 0.85
\* yields R3.2 WARNING, ratio >= 0.85 yields nothing; avg_7d_sales <= 0
\* yields nothing, and an absent avg_7d_sales yields nothing.
C5_R3Thresholds ==
    Evaluated =>
        LET r3 == EntriesOf(evaluation.violations, {"R3.2", "R3.3"}) IN
        /\ (Has(row, "avg_7d_sales") /\ Has(row, "total_sales") /\ row.avg_7d_sales > 0) =>
              LET s == row.total_sales
                  a == row.avg_7d_sales
              IN  /\ 100 * s < 70 * a =>
                      Len(r3) = 1 /\ r3[1].rule = "R3.3" /\ r3[1].severity = "CRITICAL"
                  /\ (70 * a <= 100 * s /\ 100 * s < 85 * a) =>
                      Len(r3) = 1 /\ r3[1].rule = "R3.2" /\ r3[1].severity = "WARNING"
                  /\ 85 * a <= 100 * s => r3 = <<>>
        /\ (Has(row, "avg_7d_sales") /\ row.avg_7d_sales <= 0) => r3 = <<>>
        /\ ~Has(row, "avg_7d_sales") => r3 = <<>>

\* a ratio of exactly 0.85 has been evaluated without an R3 violation
C5_Witness ==
    /\ Evaluated /\ Has(row, "avg_7d_sales") /\ Has(row, "total_sales")
    /\ row.avg_7d_sales = 100 /\ row.total_sales = 85
    /\ EntriesOf(evaluation.violations, {"R3.2", "R3.3"}) = <<>>


(***************************************************************************)
(* The engine shared by the web handlers (app.py: agent) and the data      *)
(* file it reads.  The file is written by its owner: a header first, then  *)
(* one record after another.                                               *)
(***************************************************************************)
MaxRows == 2

DailyCols == {"date", "total_sales", "target_daily", "delta_vs_target", "is_weekend"}

DailyRows ==
    [date : {"2024-01-05", "2024-01-06"},
     total_sales : {80},
     target_daily : {-100, 0, 100},
     delta_vs_target : {-20, -5, 5},
     is_weekend : BOOLEAN]

WriteHeader(cols) ==
    /\ file.kind \in {"absent", "zero_byte"}
    /\ file' = Table(cols, <<>>)
    /\ UNCHANGED <<df, latest_date, df_results, summary, outcome, row, rollup, evaluation, now, seen, backup, req>>

AppendRecord(r) ==
    /\ file.kind = "table"
    /\ DOMAIN r = file.cols
    /\ file' = [file EXCEPT !.rows = Append(@, r)]
    /\ UNCHANGED <<df, latest_date, df_results, summary, outcome, row, rollup, evaluation, now, seen, backup, req>>

WriteDailyHeader == WriteHeader(DailyCols)

AppendDailyRow ==
    /\ file.kind = "table"
    /\ Len(file.rows) < MaxRows
    /\ \E r \in DailyRows : AppendRecord(r)

\* the engine and the handler after a call that ended with out
Returns(out, later) ==
    /\ df' = out.df
    /\ latest_date' = out.latest_date
    /\ df_results' = out.df_results
    /\ summary' = out.summary
    /\ outcome' = IF out.raised THEN "raised" ELSE "returned"
    /\ seen' = file
    /\ now' = later
    /\ UNCHANGED <<file, row, rollup, evaluation, backup, req>>

\* agent.run_analysis() in a request handler (app.py overview, insight,
\* alerts), the wall clock showing the day `later` when the call ends
RunAnalysisAt(later) == Returns(run_analysis(file, df, latest_date, now, later), later)

\* the call within one day
RunAnalysis == RunAnalysisAt(now)

Next == WriteDailyHeader \/ AppendDailyRow \/ RunAnalysis

Spec == Init /\ [][Next]_vars


(***************************************************************************)
(* Claims about the daily processor and the aggregator (checked under      *)
(* Spec).                                                                  *)
(***************************************************************************)
Returned == outcome = "returned"

Loaded == df # None /\ df.parsed /\ Len(df.rows) > 0

\* the indices of the loaded rows that carry the maximum date, in table order
LatestIdx ==
    LET all == 1..Len(df.rows)
        top == {i \in all : \A j \in all : df.rows[j].date <= df.rows[i].date}
    IN  SelectSeq([i \in all |-> i], LAMBDA i : i \in top)

\* C6: for a non-empty loaded dataset process_daily_data returns exactly one
\* record per input record of the maximum date, none for an earlier date,
\* each with the status, violations and adjustment_note of evaluate_rules
\* on that input row.
C6_LatestDayEvaluated ==
    (Returned /\ Loaded) =>
        /\ Len(df_results) = Len(LatestIdx)
        /\ \A k \in 1..Len(df_results) :
              LET in == df.rows[LatestIdx[k]]
                  out == df_results[k]
              IN  /\ out.date = in.date
                  /\ \A j \in 1..Len(df.rows) : df.rows[j].date <= out.date
                  /\ out.delta_vs_target = in.delta_vs_target
                  /\ out.status = evaluate_rules(in).status
                  /\ out.violations = evaluate_rules(in).violations
                  /\ out.adjustment_note = evaluate_rules(in).adjustment_note

\* a dataset whose first record is of the latest day and whose last is not
C6_Witness ==
    /\ Returned /\ Loaded
    /\ Len(df.rows) >= 2
    /\ df.rows[Len(df.rows)].date < df.rows[1].date
    /\ Len(df_results) >= 1
    /\ Len(df_results) < Len(df.rows)

CountStatus(res, st) == Cardinality({i \in 1..Len(res) : res[i].status = st})

\* C7: for a non-empty result table the three counts are the exact numbers
\* of records of each status and overall_status is the maximum severity
\* over the records' statuses after the R4 adjustment.
C7_CountsAndOverall ==
    (Returned /\ Len(df_results) > 0) =>
        /\ summary.critical_count = CountStatus(df_results, "CRITICAL")
        /\ summary.warning_count = CountStatus(df_results, "WARNING")
        /\ summary.ok_count = CountStatus(df_results, "OK")
        /\ summary.critical_count + summary.warning_count + summary.ok_count
              = summary.total_rows
        /\ summary.overall_status \in Statuses
        /\ \A i \in 1..Len(df_results) :
              SeverityRank(df_results[i].status) <= SeverityRank(summary.overall_status)
        /\ \E i \in 1..Len(df_results) : df_results[i].status = summary.overall_status

\* a table with a weekend-downgraded record next to an OK record
C7_Witness ==
    /\ Returned /\ Len(df_results) >= 2
    /\ summary.overall_status = "WARNING"
    /\ summary.ok_count >= 1
    /\ \E i \in 1..Len(df_results) :
          df_results[i].status = "WARNING" /\ df_results[i].adjustment_note # NoneNote

RatEq(a, b) == a[1] * b[2] = b[1] * a[2]

SumField(res, k) ==
    LET RECURSIVE Upto(_)
        Upto(n) == IF n = 0 THEN 0 ELSE res[n][k] + Upto(n - 1)
    IN  Upto(Len(res))

\* C9 as stated: portfolio_achievement is (sum of total_sales / sum of
\* target_daily) x 100 whenever the sum of target_daily is not 0, and 0 when
\* the sum is 0.
C9_Original ==
    (Returned /\ Len(df_results) > 0) =>
        LET ts == SumField(df_results, "total_sales")
            tt == SumField(df_results, "target_daily")
        IN  /\ tt # 0 => /\ summary.portfolio_achievement[2] # 0
                         /\ RatEq(summary.portfolio_achievement, <<100 * ts, tt>>)
            /\ tt = 0 => summary.portfolio_achievement[1] = 0

\* C9 amended: portfolio_achievement is (sum of total_sales / sum of
\* target_daily) x 100 whenever the sum of target_daily is greater than 0,
\* and 0 whenever the sum is 0 or negative; the division is never by zero.
C9_AchievementGuarded ==
    (Returned /\ Len(df_results) > 0) =>
        LET ts == SumField(df_results, "total_sales")
            tt == SumField(df_results, "target_daily")
        IN  /\ summary.portfolio_achievement[2] # 0
            /\ tt > 0 => RatEq(summary.portfolio_achievement, <<100 * ts, tt>>)
            /\ tt <= 0 => summary.portfolio_achievement[1] = 0

\* a table whose targets cancel to 0 although sales are not 0
C9_Witness ==
    /\ Returned /\ Len(df_results) >= 2
    /\ SumField(df_results, "target_daily") = 0
    /\ df_results[1].target_daily # 0
    /\ SumField(df_results, "total_sales") > 0
    /\ summary.portfolio_achievement[1] = 0

NoRecords == file.kind \in {"absent", "zero_byte"} \/ (file.kind = "table" /\ file.rows = <<>>)

\* C10: when the data file is absent or holds no records, run_analysis
\* returns (does not raise) a summary with total_rows 0, all counts 0,
\* overall_status OK and all four lists empty.
C10_EmptySummary ==
    (NoRecords /\ outcome # "none") =>
        /\ outcome = "returned"
        /\ summary.total_rows = 0
        /\ summary.critical_count = 0
        /\ summary.warning_count = 0
        /\ summary.ok_count = 0
        /\ summary.overall_status = "OK"
        /\ summary.critical_issues = <<>>
        /\ summary.warning_issues = <<>>
        /\ summary.top_performers = <<>>
        /\ summary.flagged_items = <<>>


(***************************************************************************)
(* Ranking: one day's file with up to MaxRankRows records, written before  *)
(* the engine is first used, then analysed.                                *)
(***************************************************************************)
MaxRankRows == 6

\* a weekday file has no is_weekend column; in a weekend file every record
\* of the day carries is_weekend = True
RankCols == {"date", "delta_vs_target"}

RankWeekendCols == {"date", "delta_vs_target", "is_weekend"}

RankRows ==
    [date : {"2024-01-05"},
     delta_vs_target : {-30, -20, -5, 3}]

RankWeekendRows ==
    [date : {"2024-01-06"},
     delta_vs_target : {-30, -20, 3, 6},
     is_weekend : {TRUE}]

WriteRankHeader == \E cols \in {RankCols, RankWeekendCols} : WriteHeader(cols)

AppendRankRow ==
    /\ outcome = "none"
    /\ file.kind = "table"
    /\ Len(file.rows) < MaxRankRows
    /\ \E r \in RankRows \cup RankWeekendRows : AppendRecord(r)

NextRank == WriteRankHeader \/ AppendRankRow \/ RunAnalysis

SpecRank == Init /\ [][NextRank]_vars

Count(s, x) == Cardinality({i \in 1..Len(s) : s[i] = x})

\* lst is made of records of res with status st, in the order given by
\* sign (1 ascending, -1 descending), and holds the Min(cap, n) of the n
\* such records that come first in that order
RankedList(lst, res, st, sign, cap) ==
    /\ \A i \in 1..Len(lst) : lst[i].status = st
    /\ \A i \in 1..Len(lst) : Count(lst, lst[i]) <= Count(res, lst[i])
    /\ \A i, j \in 1..Len(lst) :
          i < j => sign * lst[i].delta_vs_target <= sign * lst[j].delta_vs_target
    /\ Len(lst) = Min(cap, CountStatus(res, st))
    /\ \A i \in 1..Len(res) : \A j \in 1..Len(lst) :
          (res[i].status = st
             /\ sign * res[i].delta_vs_target < sign * lst[j].delta_vs_target)
          => Count(lst, res[i]) = Count(res, res[i])

\* C8: critical_issues and warning_issues hold only CRITICAL resp. WARNING
\* records, ascending by delta_vs_target, the at most 5 with the smallest
\* delta_vs_target; top_performers holds only OK records, descending, the
\* at most 3 with the largest delta_vs_target.
C8_RankedLists ==
    (Returned /\ Len(df_results) > 0) =>
        /\ RankedList(summary.critical_issues, df_results, "CRITICAL", 1, 5)
        /\ RankedList(summary.warning_issues, df_results, "WARNING", 1, 5)
        /\ RankedList(summary.top_performers, df_results, "OK", -1, 3)

\* six CRITICAL records of two different deltas, given worst last, were cut
\* to five
C8_Witness ==
    /\ Returned /\ Len(df_results) = 6
    /\ summary.critical_count = 6
    /\ df_results[1].delta_vs_target > df_results[6].delta_vs_target
    /\ Len(summary.critical_issues) = 5


(***************************************************************************)
(* Missing and unreadable data files: no file, a zero-byte file, a table   *)
(* without a date column, a table whose date cells do not parse, and a     *)
(* table whose date cells are missing values.                              *)
(***************************************************************************)
NoDateCols == {"delta_vs_target"}

BadDateCols == {"date", "delta_vs_target"}

NoDateRows == [delta_vs_target : {-20, -5, 5}]

BadDateRows ==
    [date : {"31-31-2024"},
     delta_vs_target : {-20, -5, 5}]

\* records whose date cell read_csv takes for a missing value
MissingDateRows ==
    [date : {"n/a"},
     delta_vs_target : {-20, 5}]

WriteUnreadableHeader == \E cols \in {NoDateCols, BadDateCols} : WriteHeader(cols)

AppendUnreadableRow ==
    /\ file.kind = "table"
    /\ Len(file.rows) < MaxRows
    /\ \E r \in NoDateRows \cup BadDateRows \cup MissingDateRows : AppendRecord(r)

NextLoad == WriteUnreadableHeader \/ AppendUnreadableRow \/ RunAnalysis

SpecLoad == Init /\ [][NextLoad]_vars

\* C11: whichever way the data file is missing or unreadable (not found,
\* not parseable as a table, no date column, unparseable dates), no
\* exception leaves run_analysis, process_daily_data returns the empty
\* result and run_analysis the empty summary.
C11_UnreadableIsRecoverable ==
    (outcome # "none") =>
        /\ outcome = "returned"
        /\ df_results = <<>>
        /\ summary.total_rows = 0
        /\ summary.overall_status = "OK"
        /\ summary.flagged_items = <<>>


(***************************************************************************)
(* Claims about runs of the shared engine over time (checked under Spec).  *)
(***************************************************************************)
\* what an engine that has loaded nothing yet returns for the file content f
FreshRun(f) == run_analysis(f, None, None, now, now)

\* C12: every run_analysis call returns the summary of the content the data
\* file has at the time of the call, also when the file has changed since
\* an earlier run.
C12_RunReadsCurrentFile ==
    (outcome # "none") =>
        IF FreshRun(seen).raised
          THEN outcome = "raised"
          ELSE outcome = "returned" /\ summary = FreshRun(seen).summary


(***************************************************************************)
(* Shape of an evaluation (checked under SpecRules).                       *)
(***************************************************************************)
RuleOf(v) ==
    IF v.rule \in {"R1.2", "R1.3"} THEN 1
    ELSE IF v.rule \in {"R2.2", "R2.3"} THEN 2
    ELSE IF v.rule \in {"R3.2", "R3.3"} THEN 3
    ELSE 0

\* C16: the violations list holds at most one violation per rule R1, R2,
\* R3, in that order, and adjustment_note is set exactly when the weekend
\* downgrade from CRITICAL to WARNING was applied.
C16_ViolationOrderAndNote ==
    Evaluated =>
        LET vs == evaluation.violations IN
        /\ \A i \in 1..Len(vs) : RuleOf(vs[i]) \in {1, 2, 3}
        /\ \A i, j \in 1..Len(vs) : i < j => RuleOf(vs[i]) < RuleOf(vs[j])
        /\ (evaluation.adjustment_note # NoneNote)
             <=> (rollup = "CRITICAL" /\ evaluation.status = "WARNING"
                    /\ Has(row, "is_weekend") /\ row.is_weekend)

\* a weekday row violating all three rules has been evaluated, without a note
C16_Witness ==
    /\ Evaluated
    /\ Len(evaluation.violations) = 3
    /\ rollup = "CRITICAL"
    /\ evaluation.status = "CRITICAL"
    /\ evaluation.adjustment_note = NoneNote


(***************************************************************************)
(* Aliased columns: files whose header holds any subset of region, city,   *)
(* product, product_line, total_sales and sales next to date and           *)
(* avg_7d_sales.                                                           *)
(***************************************************************************)
AliasOptional == {"region", "city", "product", "product_line", "total_sales", "sales"}

AliasColSets == {{"date", "avg_7d_sales"} \cup opt : opt \in SUBSET AliasOptional}

AliasFullRows ==
    [date : {"2024-01-05"},
     avg_7d_sales : {100},
     region : {"Jakarta"},
     city : {"Bandung"},
     product : {"Beauty"},
     product_line : {"Clothing"},
     total_sales : {75, 100},
     sales : {60, 90}]

AliasRows == {Restrict(f, cols) : f \in AliasFullRows, cols \in AliasColSets}

WriteAliasHeader == \E cols \in AliasColSets : WriteHeader(cols)

AppendAliasRow ==
    /\ file.kind = "table"
    /\ Len(file.rows) < MaxRows
    /\ \E r \in AliasRows : AppendRecord(r)

NextAlias == WriteAliasHeader \/ AppendAliasRow \/ RunAnalysis

SpecAlias == Init /\ [][NextAlias]_vars

\* C15: for every row the output region is the row's region if present,
\* else its city, else "Unknown"; the output product is product, else
\* product_line, else "Unknown"; the output total_sales is total_sales,
\* else sales, else 0.
C15_AliasFirstMatchWins ==
    (Returned /\ Loaded) =>
        \A k \in 1..Len(df_results) :
            LET in == df.rows[LatestIdx[k]]
                out == df_results[k]
            IN  /\ out.region = IF Has(in, "region") THEN in.region
                                ELSE IF Has(in, "city") THEN in.city
                                ELSE "Unknown"
                /\ out.product = IF Has(in, "product") THEN in.product
                                 ELSE IF Has(in, "product_line") THEN in.product_line
                                 ELSE "Unknown"
                /\ out.total_sales = IF Has(in, "total_sales") THEN in.total_sales
                                     ELSE IF Has(in, "sales") THEN in.sales
                                     ELSE 0

\* a row carrying both region and city, and sales without total_sales, has
\* been processed
C15_Witness ==
    /\ Returned /\ Loaded /\ Len(df_results) >= 1
    /\ Has(df.rows[1], "region") /\ Has(df.rows[1], "city")
    /\ ~Has(df.rows[1], "total_sales") /\ Has(df.rows[1], "sales")
    /\ df_results[1].region = "Jakarta"
    /\ df_results[1].total_sales = df.rows[1].sales

\* the input row with its amount under the name total_sales
WithTotalSales(in, amount) ==
    [c \in DOMAIN in \cup {"total_sales"} |-> IF c = "total_sales" THEN amount ELSE in[c]]

\* C17: the total_sales that R3 compares with avg_7d_sales is the value
\* reported as total_sales in the evaluated record, so a row carrying its
\* amount as `sales` gets the status and violations of the same row
\* carrying it as `total_sales`.
C17_EvaluatedAmountIsReported ==
    (Returned /\ Loaded) =>
        \A k \in 1..Len(df_results) :
            LET in == df.rows[LatestIdx[k]]
                out == df_results[k]
                same == evaluate_rules(WithTotalSales(in, out.total_sales))
            IN  /\ out.status = same.status
                /\ out.violations = same.violations


(***************************************************************************)
(* The alerts section of the report (checked under SpecRank).              *)
(***************************************************************************)
\* the issues the alerts section lists: the first 3 critical, then the
\* first 2 warning issues
ListedIssues ==
    SubSeq(summary.critical_issues, 1, Min(3, Len(summary.critical_issues)))
      \o SubSeq(summary.warning_issues, 1, Min(2, Len(summary.warning_issues)))

ListsListedIssues ==
    LET lines == summary.ai_insight.alert_lines IN
    /\ summary.ai_insight.branch = summary.overall_status
    /\ Len(lines) = Len(ListedIssues)
    /\ \A i \in 1..Len(lines) :
          /\ lines[i].region = ListedIssues[i].region
          /\ lines[i].product = ListedIssues[i].product
          /\ lines[i].delta_vs_target = ListedIssues[i].delta_vs_target
          /\ lines[i].label = IF ListedIssues[i].status = "CRITICAL"
                                THEN "KRITIS" ELSE "PERINGATAN"

\* C14 as stated: the branch follows overall_status, the first min(3, n)
\* critical issues are listed, then the first min(2, m) warning issues, and
\* each listed item's text carries the message of the item's first
\* violation, or a fallback message when it has none.
C14_Original ==
    Returned =>
        /\ ListsListedIssues
        /\ \A i \in 1..Len(summary.ai_insight.alert_lines) :
              LET line == summary.ai_insight.alert_lines[i]
                  item == ListedIssues[i]
              IN  /\ Has(line, "message")
                  /\ line.message = IF item.violations # <<>>
                                      THEN item.violations[1].message
                                      ELSE [text |-> "Performance below expectations",
                                            tenths |-> 0]

\* C14 amended: the branch follows overall_status, the first min(3, n)
\* critical issues are listed, then the first min(2, m) warning issues, and
\* each listed item's text carries the item's region, product and
\* delta_vs_target (a critical item's also total_sales and
\* delta_vs_yesterday) and no violation message.
C14_InsightLines ==
    Returned =>
        /\ ListsListedIssues
        /\ \A i \in 1..Len(summary.ai_insight.alert_lines) :
              LET line == summary.ai_insight.alert_lines[i]
                  item == ListedIssues[i]
              IN  /\ ~Has(line, "message")
                  /\ item.status = "CRITICAL" =>
                        /\ line.total_sales = item.total_sales
                        /\ line.delta_vs_yesterday = item.delta_vs_yesterday

\* four critical issues and a warning issue: three and one are listed
C14_Witness ==
    /\ Returned
    /\ Len(summary.critical_issues) >= 4
    /\ Len(summary.warning_issues) >= 1
    /\ Len(summary.ai_insight.alert_lines) = 4
    /\ summary.ai_insight.alert_lines[4].label = "PERINGATAN"


(***************************************************************************)
(* Runs on an unchanged file while the wall clock advances.                *)
(***************************************************************************)
MaxTicks == 1

ClockCols == {"date", "delta_vs_target"}

ClockRows == [date : {"2024-01-05", "2024-01-06"}, delta_vs_target : {-20, 5}]

WriteClockHeader == WriteHeader(ClockCols)

AppendClockRow ==
    /\ file.kind = "table"
    /\ Len(file.rows) < MaxRows
    /\ \E r \in ClockRows : AppendRecord(r)

\* midnight passes: datetime.now() (lines 219-220) reads the next day
Tick ==
    /\ now < Today + MaxTicks
    /\ now' = now + 1
    /\ UNCHANGED <<file, df, latest_date, df_results, summary, outcome, row,
                   rollup, evaluation, seen, backup, req>>

\* the call while midnight passes, between the two clock reads of
\* _empty_summary when the selection is empty
RunAnalysisOverMidnight ==
    /\ now < Today + MaxTicks
    /\ RunAnalysisAt(now + 1)

NextClock ==
    \/ WriteClockHeader
    \/ AppendClockRow
    \/ Tick
    \/ RunAnalysis
    \/ RunAnalysisOverMidnight

SpecClock == Init /\ [][NextClock]_vars

\* C13: a run of the pipeline on the file the previous run read (the same
\* snapshot, the same engine) ends as the previous run did and yields the
\* same summary and report, including when the snapshot has no records.
C13_SameSnapshotSameResult ==
    [][(outcome # "none" /\ outcome' # "none" /\ file = seen /\ file' = file
          /\ seen' = seen)
        => (outcome' = outcome /\ summary' = summary)]_vars


(***************************************************************************)
(* Request handlers running at the same time (app.py runs threaded).  Each *)
(* statement of load_data and get_latest_data is one step on the fields of *)
(* the engine the call was made on.                                        *)
(***************************************************************************)
SeqsUpTo(S, n) == UNION {[1..k -> S] : k \in 0..n}

UploadCols == {"date", "delta_vs_target"}

UploadRows == {[date |-> "2024-01-05", delta_vs_target |-> -20],
               [date |-> "2024-01-06", delta_vs_target |-> 5]}

\* a date cell that is still text, as the maximum of an unconverted column
Text(s) == [kind |-> "Text", text |-> s]

RaceFiles == {Absent, ZeroByte}
               \cup {Table(UploadCols, rows) : rows \in SeqsUpTo(UploadRows, MaxRows)}

InitRace ==
    /\ file \in RaceFiles
    /\ df = None
    /\ latest_date = None
    /\ df_results = None
    /\ summary = None
    /\ outcome = "none"
    /\ row = None
    /\ rollup = "none"
    /\ evaluation = None
    /\ now = Today
    /\ seen = None
    /\ backup = Absent
    /\ req = NoRequests

Raised == [raised |-> TRUE]

\* the fields of the engine request t runs on
Engine(t) ==
    IF req[t].self = None THEN [df |-> df, latest_date |-> latest_date]
    ELSE req[t].self

\* request t goes on as r, the fields of its engine becoming e
Step(t, e, r) ==
    IF req[t].self = None
      THEN /\ df' = e.df
           /\ latest_date' = e.latest_date
           /\ req' = [req EXCEPT ![t] = r]
      ELSE /\ df' = df
           /\ latest_date' = latest_date
           /\ req' = [req EXCEPT ![t] = [r EXCEPT !.self = [df |-> e.df,
                                                            latest_date |-> e.latest_date]]]

Goto(t, pc) == [req[t] EXCEPT !.pc = pc]

Done(t, result) == [req[t] EXCEPT !.pc = "done", !.result = result]

\* a handler calls agent.run_analysis() -> process_daily_data ->
\* get_latest_data on the global agent
CallRunAnalysis(t) ==
    /\ req[t].pc = "idle"
    /\ req' = [req EXCEPT ![t] = Goto(t, "check")]
    /\ UNCHANGED <<file, df, latest_date, df_results, summary, outcome, row,
                   rollup, evaluation, now, seen, backup>>

\* line 33: if self.df is None
CheckLoaded(t) ==
    /\ req[t].pc = "check"
    /\ Step(t, Engine(t), Goto(t, IF Engine(t).df = None THEN "read" ELSE "select"))
    /\ UNCHANGED <<file, df_results, summary, outcome, row,
                   rollup, evaluation, now, seen, backup>>

\* line 23, right-hand side: pd.read_csv(self.data_path) reads what the
\* file holds now; without a file, lines 27-28 print and go on
ReadCsv(t) ==
    /\ req[t].pc = "read"
    /\ IF file.kind = "absent"
         THEN Step(t, Engine(t), Goto(t, "select"))
       ELSE IF file.kind = "zero_byte"
         THEN Step(t, Engine(t), Done(t, Raised))
       ELSE Step(t, Engine(t), [req[t] EXCEPT !.pc = "assign", !.read = RawTable(file)])
    /\ UNCHANGED <<file, df_results, summary, outcome, row,
                   rollup, evaluation, now, seen, backup>>

\* line 23, assignment: self.df = <the table read before>
AssignDf(t) ==
    /\ req[t].pc = "assign"
    /\ Step(t, [Engine(t) EXCEPT !.df = req[t].read],
            [req[t] EXCEPT !.pc = "convert", !.read = None])
    /\ UNCHANGED <<file, df_results, summary, outcome, row,
                   rollup, evaluation, now, seen, backup>>

\* line 24: self.df['date'] = pd.to_datetime(self.df['date'])
ConvertDates(t) ==
    /\ req[t].pc = "convert"
    /\ LET e == Engine(t) IN
          IF "date" \notin e.df.cols \/ (~e.df.parsed /\ ~DatesParse(e.df))
            THEN Step(t, e, Done(t, Raised))
            ELSE Step(t, [e EXCEPT !.df = IF e.df.parsed THEN e.df ELSE ParsedTable(e.df)],
                      Goto(t, "latest"))
    /\ UNCHANGED <<file, df_results, summary, outcome, row,
                   rollup, evaluation, now, seen, backup>>

\* the order of the date texts as strings: a text of DateStrings by its
\* day, "31-31-2024" behind them all
TextOrder(s) == IF s = "31-31-2024" THEN 31 ELSE to_datetime(s)

\* line 25, right-hand side: self.df['date'].max(); of a column another
\* request has read again, the greatest date text
ReadLatestDate(t) ==
    /\ req[t].pc = "latest"
    /\ LET e == Engine(t)
           max == IF e.df.parsed \/ Len(e.df.rows) = 0 THEN LatestDate(e.df)
                  ELSE Text(CHOOSE s \in {e.df.rows[i].date : i \in 1..Len(e.df.rows)} :
                               \A i \in 1..Len(e.df.rows) :
                                   TextOrder(e.df.rows[i].date) <= TextOrder(s))
       IN  Step(t, e, [req[t] EXCEPT !.pc = "store", !.max = max])
    /\ UNCHANGED <<file, df_results, summary, outcome, row,
                   rollup, evaluation, now, seen, backup>>

\* line 25, assignment: self.latest_date = <the maximum read before>
StoreLatestDate(t) ==
    /\ req[t].pc = "store"
    /\ Step(t, [Engine(t) EXCEPT !.latest_date = req[t].max],
            [req[t] EXCEPT !.pc = "select", !.max = None])
    /\ UNCHANGED <<file, df_results, summary, outcome, row,
                   rollup, evaluation, now, seen, backup>>

\* run_analysis from line 36 on, on the engine fields e: nothing is loaded
AnalyseLoaded(e) == run_analysis(Absent, e.df, e.latest_date, now, now)

\* the call returns out, or raises, to the handler
Finish(t, e, out) ==
    /\ Step(t, e, Done(t, IF out.raised THEN Raised
                          ELSE [raised |-> FALSE, summary |-> out.summary]))
    /\ df_results' = out.df_results
    /\ summary' = out.summary
    /\ outcome' = IF out.raised THEN "raised" ELSE "returned"

\* lines 36-38, then the rest of run_analysis on the selected rows.  A
\* converted column compared with a date text compares with the date it
\* denotes, and equals no text that is not a date; a text column compared
\* with a date text selects the rows holding that text, whose strftime at
\* line 160 raises.
Selected(e) ==
    IF e.df # None /\ e.latest_date.kind = "Text"
      THEN IF e.df.parsed
             THEN AnalyseLoaded([e EXCEPT !.latest_date =
                                   IF e.latest_date.text \in DateStrings
                                     THEN Timestamp(to_datetime(e.latest_date.text))
                                     ELSE None])
           ELSE IF /\ "date" \in e.df.cols
                   /\ \E i \in 1..Len(e.df.rows) : e.df.rows[i].date = e.latest_date.text
             THEN [raised |-> TRUE, df_results |-> None, summary |-> None]
           ELSE AnalyseLoaded([e EXCEPT !.latest_date = None])
      ELSE AnalyseLoaded(e)

SelectAndAnalyse(t) ==
    /\ req[t].pc = "select"
    /\ Finish(t, Engine(t), Selected(Engine(t)))
    /\ seen' = file
    /\ UNCHANGED <<file, row, rollup, evaluation, now, backup>>

\* the steps of one run_analysis call
RunSteps(t) ==
    \/ CheckLoaded(t)
    \/ ReadCsv(t)
    \/ AssignDf(t)
    \/ ConvertDates(t)
    \/ ReadLatestDate(t)
    \/ StoreLatestDate(t)
    \/ SelectAndAnalyse(t)

NextRace == \E t \in Requests : CallRunAnalysis(t) \/ RunSteps(t)

SpecRace == InitRace /\ [][NextRace]_vars

\* C19: whatever the interleaving of two calls on the unloaded shared
\* engine, each call ends as a run on the file alone does and returns the
\* summary of the file's latest-date records.
C19_EveryCallSeesLoadedData ==
    \A t \in Requests :
        req[t].pc = "done" =>
            /\ req[t].result.raised = FreshRun(file).raised
            /\ ~req[t].result.raised => req[t].result.summary = FreshRun(file).summary

(***************************************************************************)
(* Uploads through the import handler (app.py, import_data), statement by  *)
(* statement, beside other imports and page requests.  shutil.copy2 and    *)
(* file.save open their destination, which empties it, and then write the  *)
(* content from the start of the file, over whatever another request has   *)
(* written there since.  The data files here all have the same length (one *)
(* record, the same columns, cells of the same width), so that a write     *)
(* covers what it finds; writing a content of no bytes leaves what it      *)
(* finds.                                                                  *)
(***************************************************************************)
\* the files a client posts: a table the engine loads and a table with a
\* date that does not parse
Uploads ==
    {Table(UploadCols, <<[date |-> "2024-01-05", delta_vs_target |-> -20]>>),
     Table(UploadCols, <<[date |-> "31-31-2024", delta_vs_target |-> -20]>>)}

\* the server starts without a data file or with one that loads
InitImport ==
    /\ file \in {Absent, Table(UploadCols, <<[date |-> "2024-01-05", delta_vs_target |-> -20]>>)}
    /\ df = None
    /\ latest_date = None
    /\ df_results = None
    /\ summary = None
    /\ outcome = "none"
    /\ row = None
    /\ rollup = "none"
    /\ evaluation = None
    /\ now = Today
    /\ seen = None
    /\ backup = Absent
    /\ req = NoRequests

\* the file after content is written from its start over current
Overwrite(content, current) == IF content.kind = "table" THEN content ELSE current

\* lines 250-252: when there is a data file, shutil.copy2 opens the backup
\* file for writing
OpenBackup(t) ==
    /\ req[t].pc = "idle"
    /\ \E upload \in Uploads :
          req' = [req EXCEPT ![t] = [req[t] EXCEPT
                     !.pc = IF file.kind # "absent" THEN "backup" ELSE "save",
                     !.kind = "post", !.upload = upload, !.previous = file]]
    /\ backup' = IF file.kind # "absent" THEN ZeroByte ELSE backup
    /\ UNCHANGED <<file, df, latest_date, df_results, summary, outcome, row,
                   rollup, evaluation, now, seen>>

\* line 252: copy2 writes what the data file holds
WriteBackup(t) ==
    /\ req[t].pc = "backup"
    /\ backup' = Overwrite(file, backup)
    /\ req' = [req EXCEPT ![t] = Goto(t, "save")]
    /\ UNCHANGED <<file, df, latest_date, df_results, summary, outcome, row,
                   rollup, evaluation, now, seen>>

\* line 257: file.save opens the data file for writing
OpenUpload(t) ==
    /\ req[t].pc = "save"
    /\ file' = ZeroByte
    /\ req' = [req EXCEPT ![t] = Goto(t, "write")]
    /\ UNCHANGED <<df, latest_date, df_results, summary, outcome, row,
                   rollup, evaluation, now, seen, backup>>

\* line 257: file.save writes the upload
WriteUpload(t) ==
    /\ req[t].pc = "write"
    /\ file' = Overwrite(req[t].upload, file)
    /\ req' = [req EXCEPT ![t] = Goto(t, "rebind")]
    /\ UNCHANGED <<df, latest_date, df_results, summary, outcome, row,
                   rollup, evaluation, now, seen, backup>>

InFlight == {"check", "read", "assign", "convert", "latest", "store", "select"}

\* lines 260-261: agent = SalesAgentEngine(DATA_PATH), an engine that has
\* loaded nothing; a call under way goes on with the engine it was made on
RebindAgent(t) ==
    /\ req[t].pc = "rebind"
    /\ df' = None
    /\ latest_date' = None
    /\ req' = [u \in Requests |->
                 IF u = t THEN Goto(t, "call")
                 ELSE IF req[u].pc \in InFlight /\ req[u].self = None
                   THEN [req[u] EXCEPT !.self = [df |-> df, latest_date |-> latest_date]]
                 ELSE req[u]]
    /\ UNCHANGED <<file, df_results, summary, outcome, row,
                   rollup, evaluation, now, seen, backup>>

\* line 264: test_summary = agent.run_analysis(), on the global agent
TestRun(t) ==
    /\ req[t].pc = "call"
    /\ req' = [req EXCEPT ![t] = [req[t] EXCEPT !.pc = "check", !.self = None]]
    /\ UNCHANGED <<file, df, latest_date, df_results, summary, outcome, row,
                   rollup, evaluation, now, seen, backup>>

Failed(t) == req[t].kind = "post" /\ req[t].result.raised

\* the handler returns: a page request with its page or its error, an
\* import with the success message (lines 266-267)
Return(t) ==
    /\ req[t].pc = "done"
    /\ ~Failed(t)
    /\ req' = [req EXCEPT ![t] = NoRequests[t]]
    /\ UNCHANGED <<file, df, latest_date, df_results, summary, outcome, row,
                   rollup, evaluation, now, seen, backup>>

\* lines 269-272: the except clause; when there is a backup, copy2 opens
\* the data file for writing
OpenRestore(t) ==
    /\ req[t].pc = "done"
    /\ Failed(t)
    /\ IF backup.kind # "absent"
         THEN file' = ZeroByte /\ req' = [req EXCEPT ![t] = Goto(t, "restore")]
         ELSE file' = file /\ req' = [req EXCEPT ![t] = NoRequests[t]]
    /\ UNCHANGED <<df, latest_date, df_results, summary, outcome, row,
                   rollup, evaluation, now, seen, backup>>

\* line 272: copy2 writes what the backup holds; lines 274-275 return
WriteRestore(t) ==
    /\ req[t].pc = "restore"
    /\ file' = Overwrite(backup, file)
    /\ req' = [req EXCEPT ![t] = NoRequests[t]]
    /\ UNCHANGED <<df, latest_date, df_results, summary, outcome, row,
                   rollup, evaluation, now, seen, backup>>

\* POST /import with an allowed file
ImportData(t) ==
    \/ OpenBackup(t)
    \/ WriteBackup(t)
    \/ OpenUpload(t)
    \/ WriteUpload(t)
    \/ RebindAgent(t)
    \/ TestRun(t)
    \/ RunSteps(t)
    \/ OpenRestore(t)
    \/ WriteRestore(t)

NextImport ==
    \E t \in Requests :
        \/ ImportData(t)
        \/ CallRunAnalysis(t)
        \/ Return(t)

SpecImport == InitImport /\ [][NextImport]_vars

\* C18: when an import fails after the upload was saved and a data file
\* existed before, the data file has its previous content again once the
\* handler has restored it, and the next run_analysis on the global agent
\* ends as a fresh engine's run on that file does, with the same summary.
C18_FailedImportRestores ==
    [][\A t \in Requests :
          (WriteRestore(t) /\ req[t].previous.kind # "absent")
            => LET later == run_analysis(file', df', latest_date', now', now')
                   fresh == run_analysis(file', None, None, now', now')
               IN  /\ file' = req[t].previous
                   /\ later.raised = fresh.raised
                   /\ later.summary = fresh.summary]_vars

====
